---- MODULE Spec2Model ----
(***************************************************************************)
(* control_jade_emu.py: main() drives a Jade emulator through the jadepy   *)
(* client: create_serial, connect, get_version_info, debug_set_mnemonic,   *)
(* two get_xpub calls and disconnect, inside try / except / finally.       *)
(*                                                                         *)
(* The client library and the emulator are external: every call on the     *)
(* client either returns a value or raises an Exception, chosen            *)
(* nondeterministically.  Asynchronous interruption of the process         *)
(* (KeyboardInterrupt, SystemExit, signals) is process termination and is  *)
(* not modelled.                                                           *)
(***************************************************************************)
EXTENDS Integers, Sequences, FiniteSets, TLC

VARIABLES
    args,          \* argparse namespace (line 35)
    mnemonic,      \* local `mnemonic` (lines 38-41)
    device,        \* local `device` (line 43)
    jade,          \* local `jade` (line 51)
    version_info,  \* local `version_info` (line 59)
    jade_state,    \* local `jade_state` (line 66)
    result,        \* local `result` (line 78)
    pc,            \* position of main() / of the module body
    pending,       \* completion a try-block exit left for after `finally`
    raised,        \* the client calls that raised an exception in this run
    calls,         \* calls made on the client object, in order
    log,           \* records emitted through `logger` / traceback
    outcome,       \* how main() ended: "running", "returned", "raised"
    retval,        \* the value main() returned
    exitCode       \* process exit status (sys.exit(main()), line 124)

vars == << args, mnemonic, device, jade, version_info, jade_state, result, pc,
           pending, raised, calls, log, outcome, retval, exitCode >>

-----------------------------------------------------------------------------
(* Bounds of the model                                                     *)

\* longest operator-supplied --mnemonic string, in atoms of MnemonicAtoms
MaxMnemonicLen == 2

-----------------------------------------------------------------------------
(* Python values                                                           *)

Unbound == [type |-> "unbound"]
PyNone == [type |-> "NoneType"]
PyBool(b) == [type |-> "bool", b |-> b]
PyInt(i) == [type |-> "int", i |-> i]
PyStr(s) == [type |-> "str", s |-> s]
PyDict(items) == [type |-> "dict", items |-> items]

\* `is not None` instead of truth-value testing
TruthyIsNotNone(v) == v.type # "NoneType"

\* Python truth-value testing, as `if args.mnemonic:` and `if result:` apply it
Truthy(v) ==
    CASE v.type = "NoneType" -> FALSE
      [] v.type = "bool" -> v.b
      [] v.type = "int" -> v.i # 0
      [] v.type = "str" -> Len(v.s) > 0
      [] v.type = "dict" -> Len(v.items) > 0

\* sep.join(list) on strings held as sequences of atoms
RECURSIVE Join(_, _)
Join(sep, list) ==
    IF Len(list) = 0 THEN << >>
    ELSE IF Len(list) = 1 THEN Head(list)
    ELSE Head(list) \o sep \o Join(sep, Tail(list))

\* [x] * n
Repeat(x, n) == [i \in 1..n |-> x]

\* dict.get(key, default) on a dict held as a sequence of <<key, value>>
RECURSIVE DictGet(_, _, _)
DictGet(items, key, default) ==
    IF Len(items) = 0 THEN default
    ELSE IF Head(items)[1] = key THEN Head(items)[2]
    ELSE DictGet(Tail(items), key, default)

-----------------------------------------------------------------------------
(* Command line                                                            *)

DefaultPort == 30121
DefaultTimeout == 30
TobaccoCount == 12

Networks == { "mainnet", "testnet", "signet", "localtest",
              "liquid", "testnet-liquid", "localtest-liquid" }

\* atoms the operator's --mnemonic strings are made of
MnemonicAtoms == { "zoo", " " }

StringsUpTo(n) == UNION { [1..k -> MnemonicAtoms] : k \in 0..n }

\* args.mnemonic: None when the flag is absent, else the string given
MnemonicArgs == { PyNone } \cup { PyStr(s) : s \in StringsUpTo(MaxMnemonicLen) }

ArgsSpace ==
    [ host : { "localhost" }, port : { DefaultPort }, network : Networks,
      mnemonic : MnemonicArgs, timeout : { DefaultTimeout } ]

\* The path components exceed TLC's 32-bit signed integers: the
\* decimal literal d1 d2 ... d10 of the source is held as its leading five
\* and trailing five digits, Dec(d1..d5, d6..d10) = d1..d5 * 10^5 + d6..d10,
\* so 2147483732 is Dec(21474, 83732)
Dec(high, low) == [high |-> high, low |-> low]

\* a resolution that ignores the operator's value
resolve_mnemonic_default_only(m) == Join(<< " " >>, Repeat(<< "tobacco" >>, TobaccoCount))

\* lines 38-41
resolve_mnemonic(m) ==
    IF Truthy(m) THEN m.s
    ELSE Join(<< " " >>, Repeat(<< "tobacco" >>, TobaccoCount))

\* both BIP84 branches use coin type 1'
derived_path_testnet_coin(network) ==
    IF network \in { "signet", "testnet", "localtest" }
    THEN << Dec(21474, 83732), Dec(21474, 83649), Dec(21474, 83648) >>
    ELSE IF network = "mainnet"
    THEN << Dec(21474, 83732), Dec(21474, 83649), Dec(21474, 83648) >>
    ELSE << Dec(21474, 83648) >>

\* lines 92-99
derived_path(network) ==
    IF network \in { "signet", "testnet", "localtest" }
    THEN << Dec(21474, 83732), Dec(21474, 83649), Dec(21474, 83648) >>
    ELSE IF network = "mainnet"
    THEN << Dec(21474, 83732), Dec(21474, 83648), Dec(21474, 83648) >>
    ELSE << Dec(21474, 83648) >>

-----------------------------------------------------------------------------
(* What the external client can answer                                     *)

\* get_version_info() replies: dicts with and without a JADE_STATE entry
VersionInfos ==
    { << << "JADE_VERSION", "1.0.30" >> >> } \cup
    { << << "JADE_VERSION", "1.0.30" >>, << "JADE_STATE", s >> >> :
        s \in { "READY", "LOCKED", "UNINIT" } }

\* values _jadeRpc('debug_set_mnemonic', ...) can return
RpcResults ==
    { PyNone, PyBool(FALSE), PyBool(TRUE), PyInt(0), PyInt(1),
      PyStr(<< >>), PyDict(<< >>), PyDict(<< << "ok", "yes" >> >>) }

Xpubs == { "xpub-a", "xpub-b" }

-----------------------------------------------------------------------------
(* Records of calls and of log lines                                       *)

Call(name) == [name |-> name]
XpubCall(network, path) == [name |-> "get_xpub", network |-> network, path |-> path]

\* the RPC issued with the default (bounded) timeout
set_mnemonic_call_short_timeout(m) ==
    [ name |-> "_jadeRpc", method |-> "debug_set_mnemonic",
      params |-> [ mnemonic |-> PyStr(m), passphrase |-> PyNone,
                   temporary_wallet |-> PyBool(FALSE) ],
      long_timeout |-> FALSE ]

\* lines 77-78
set_mnemonic_call(m) ==
    [ name |-> "_jadeRpc", method |-> "debug_set_mnemonic",
      params |-> [ mnemonic |-> PyStr(m), passphrase |-> PyNone,
                   temporary_wallet |-> PyBool(FALSE) ],
      long_timeout |-> TRUE ]

Log(level, msg) == [level |-> level, msg |-> msg]

\* lines 61-62
LogItems(items) ==
    [ i \in 1..Len(items) |->
        [level |-> "INFO", msg |-> "item", key |-> items[i][1], value |-> items[i][2]] ]

-----------------------------------------------------------------------------
(* Control flow of main(): the try (53), the inner try (86) with its       *)
(* handler (104), the outer handler (110) and the finally block (115)      *)

\* where control goes after `step` ended `how`: "ok", "raise", or "falsy"
\* (the else branch of `if result:`)
TryFlow(step, how) ==
    CASE step = "create_serial" ->
            IF how = "ok" THEN "connect" ELSE "exit"
      [] step = "connect" ->
            IF how = "ok" THEN "get_version_info" ELSE "except"
      [] step = "get_version_info" ->
            IF how = "ok" THEN "debug_set_mnemonic" ELSE "except"
      [] step = "debug_set_mnemonic" ->
            IF how = "ok" THEN "get_xpub_root"
            ELSE IF how = "falsy" THEN "finally" ELSE "except"
      [] step = "get_xpub_root" ->
            IF how = "ok" THEN "get_xpub_derived" ELSE "except_xpub"
      [] step = "get_xpub_derived" ->
            IF how = "ok" THEN "finally" ELSE "except_xpub"

\* create_serial moved inside the try block
GotoCreateInsideTry(step, how) ==
    IF step = "create_serial" /\ how = "raise" THEN "except" ELSE TryFlow(step, how)

\* no inner try around the get_xpub calls
GotoNoInnerTry(step, how) ==
    IF step \in { "get_xpub_root", "get_xpub_derived" } /\ how = "raise"
    THEN "except" ELSE TryFlow(step, how)

\* a failed version query is swallowed and the sequence goes on
GotoVersionSwallowed(step, how) ==
    IF step = "get_version_info" /\ how = "raise"
    THEN "debug_set_mnemonic" ELSE TryFlow(step, how)

Goto(step, how) == TryFlow(step, how)

\* the outer handler without its `return 1`
TopHandlerFallsThrough == "none"

\* line 114: the outer handler leaves through `return 1`
TopHandlerCompletion == "return1"

\* disconnect only when the connection was established
finally_calls_if_connected(cs) ==
    IF "connect" \in raised THEN cs ELSE Append(cs, Call("disconnect"))

\* line 117
finally_calls(cs) == Append(cs, Call("disconnect"))

\* a finally block that ends in `return 0`
after_finally_return_zero(pend, disc_raised) ==
    [outcome |-> "returned", retval |-> PyInt(0)]

\* lines 115-120: how main() ends once the finally block ran; an exception
\* of the finally block replaces the pending return, else the pending
\* `return 1` completes, else control reaches `return 0`
after_finally(pend, disc_raised) ==
    IF disc_raised THEN [outcome |-> "raised", retval |-> Unbound]
    ELSE IF pend = "return1" THEN [outcome |-> "returned", retval |-> PyInt(1)]
    ELSE [outcome |-> "returned", retval |-> PyInt(0)]

-----------------------------------------------------------------------------
(* Initial state: the interpreter enters main() with some command line     *)

Init ==
    /\ args \in ArgsSpace
    /\ mnemonic = Unbound
    /\ device = Unbound
    /\ jade = Unbound
    /\ version_info = Unbound
    /\ jade_state = Unbound
    /\ result = Unbound
    /\ pc = "parse_args"
    /\ pending = "none"
    /\ raised = {}
    /\ calls = << >>
    /\ log = << >>
    /\ outcome = "running"
    /\ retval = Unbound
    /\ exitCode = Unbound

-----------------------------------------------------------------------------
(* Steps of main()                                                         *)

\* lines 26-47
parse_args ==
    /\ pc = "parse_args"
    /\ mnemonic' = PyStr(resolve_mnemonic(args.mnemonic))
    /\ device' = << "tcp", args.host, args.port >>
    /\ log' = log \o << Log("INFO", "Connecting"), Log("INFO", "Using mnemonic"),
                        Log("INFO", "Network") >>
    /\ pc' = "create_serial"
    /\ UNCHANGED << args, jade, version_info, jade_state, result, pending, raised,
                    calls, outcome, retval, exitCode >>

\* line 51, outside the try block
create_serial ==
    /\ pc = "create_serial"
    /\ \E how \in { "ok", "raise" } :
        /\ pc' = Goto("create_serial", how)
        /\ IF how = "ok"
           THEN /\ jade' = [device |-> device, timeout |-> args.timeout]
                /\ UNCHANGED << raised, outcome >>
           ELSE /\ raised' = raised \cup { "create_serial" }
                /\ outcome' = IF pc' = "exit" THEN "raised" ELSE outcome
                /\ UNCHANGED jade
    /\ UNCHANGED << args, mnemonic, device, version_info, jade_state, result,
                    pending, calls, log, retval, exitCode >>

\* lines 55-56
connect ==
    /\ pc = "connect"
    /\ calls' = Append(calls, Call("connect"))
    /\ \E how \in { "ok", "raise" } :
        /\ pc' = Goto("connect", how)
        /\ IF how = "ok"
           THEN /\ log' = Append(log, Log("INFO", "Connected"))
                /\ UNCHANGED raised
           ELSE /\ raised' = raised \cup { "connect" }
                /\ UNCHANGED log
    /\ UNCHANGED << args, mnemonic, device, jade, version_info, jade_state, result,
                    pending, outcome, retval, exitCode >>

\* lines 59-67
get_version_info ==
    /\ pc = "get_version_info"
    /\ calls' = Append(calls, Call("get_version_info"))
    /\ \/ \E vi \in VersionInfos :
            /\ version_info' = PyDict(vi)
            /\ jade_state' = DictGet(vi, "JADE_STATE", "UNKNOWN")
            /\ log' = log \o << Log("INFO", "Jade version info") >> \o LogItems(vi)
                          \o << Log("INFO", "Jade state") >>
            /\ pc' = Goto("get_version_info", "ok")
            /\ UNCHANGED raised
       \/ /\ raised' = raised \cup { "get_version_info" }
          /\ pc' = Goto("get_version_info", "raise")
          /\ UNCHANGED << version_info, jade_state, log >>
    /\ UNCHANGED << args, mnemonic, device, jade, result, pending, outcome, retval,
                    exitCode >>

\* lines 73-83 and 106-108
debug_set_mnemonic ==
    /\ pc = "debug_set_mnemonic"
    /\ calls' = Append(calls, set_mnemonic_call(mnemonic.s))
    /\ \/ \E r \in RpcResults :
            /\ result' = r
            /\ IF Truthy(r)
               THEN /\ log' = log \o << Log("INFO", "Setting mnemonic"),
                                        Log("INFO", "Successfully set wallet"),
                                        Log("INFO", "Mnemonic"),
                                        Log("INFO", "Getting xpub") >>
                    /\ pc' = Goto("debug_set_mnemonic", "ok")
                    /\ UNCHANGED pending
               ELSE /\ log' = log \o << Log("INFO", "Setting mnemonic"),
                                        Log("ERROR", "Failed to set mnemonic") >>
                    /\ pending' = "return1"
                    /\ pc' = Goto("debug_set_mnemonic", "falsy")
            /\ UNCHANGED raised
       \/ /\ raised' = raised \cup { "debug_set_mnemonic" }
          /\ log' = Append(log, Log("INFO", "Setting mnemonic"))
          /\ pc' = Goto("debug_set_mnemonic", "raise")
          /\ UNCHANGED << result, pending >>
    /\ UNCHANGED << args, mnemonic, device, jade, version_info, jade_state, outcome,
                    retval, exitCode >>

\* lines 88-89
get_xpub_root ==
    /\ pc = "get_xpub_root"
    /\ calls' = Append(calls, XpubCall(args.network, << >>))
    /\ \/ \E x \in Xpubs :
            /\ log' = Append(log, [level |-> "INFO", msg |-> "Root xpub", value |-> x])
            /\ pc' = Goto("get_xpub_root", "ok")
            /\ UNCHANGED raised
       \/ /\ raised' = raised \cup { "get_xpub_root" }
          /\ pc' = Goto("get_xpub_root", "raise")
          /\ UNCHANGED log
    /\ UNCHANGED << args, mnemonic, device, jade, version_info, jade_state, result,
                    pending, outcome, retval, exitCode >>

\* lines 92-102
get_xpub_derived ==
    /\ pc = "get_xpub_derived"
    /\ calls' = Append(calls, XpubCall(args.network, derived_path(args.network)))
    /\ \/ \E x \in Xpubs :
            /\ log' = Append(log, [level |-> "INFO", msg |-> "Derived xpub", value |-> x])
            /\ pc' = Goto("get_xpub_derived", "ok")
            /\ UNCHANGED raised
       \/ /\ raised' = raised \cup { "get_xpub_derived" }
          /\ pc' = Goto("get_xpub_derived", "raise")
          /\ UNCHANGED log
    /\ UNCHANGED << args, mnemonic, device, jade, version_info, jade_state, result,
                    pending, outcome, retval, exitCode >>

\* lines 104-105: the inner handler
except_xpub ==
    /\ pc = "except_xpub"
    /\ log' = Append(log, Log("WARNING", "Could not get xpub"))
    /\ pc' = "finally"
    /\ UNCHANGED << args, mnemonic, device, jade, version_info, jade_state, result,
                    pending, raised, calls, outcome, retval, exitCode >>

\* lines 110-114: the outer handler
except_Exception ==
    /\ pc = "except"
    /\ log' = log \o << Log("ERROR", "Error"), Log("STDERR", "traceback") >>
    /\ pending' = TopHandlerCompletion
    /\ pc' = "finally"
    /\ UNCHANGED << args, mnemonic, device, jade, version_info, jade_state, result,
                    raised, calls, outcome, retval, exitCode >>

\* lines 115-120: the finally block, then the completion it deferred
finally_disconnect ==
    /\ pc = "finally"
    /\ calls' = finally_calls(calls)
    /\ \E disc_raised \in BOOLEAN :
        /\ raised' = IF disc_raised THEN raised \cup { "disconnect" } ELSE raised
        /\ log' = IF disc_raised THEN log ELSE Append(log, Log("INFO", "Disconnected"))
        /\ outcome' = after_finally(pending, disc_raised).outcome
        /\ retval' = after_finally(pending, disc_raised).retval
    /\ pc' = "exit"
    /\ UNCHANGED << args, mnemonic, device, jade, version_info, jade_state, result,
                    pending, exitCode >>

\* lines 123-124: sys.exit(main()); an exception that leaves main() is
\* uncaught and the interpreter ends with status 1
sys_exit ==
    /\ pc = "exit"
    /\ exitCode' = IF outcome = "returned" THEN retval ELSE PyInt(1)
    /\ pc' = "done"
    /\ UNCHANGED << args, mnemonic, device, jade, version_info, jade_state, result,
                    pending, raised, calls, log, outcome, retval >>

Next ==
    \/ parse_args
    \/ create_serial
    \/ connect
    \/ get_version_info
    \/ debug_set_mnemonic
    \/ get_xpub_root
    \/ get_xpub_derived
    \/ except_xpub
    \/ except_Exception
    \/ finally_disconnect
    \/ sys_exit

Spec == Init /\ [][Next]_vars

-----------------------------------------------------------------------------
(* Vocabulary of the properties                                            *)

\* main() has finished (returned or let an exception out)
Finished == pc \in { "exit", "done" }

\* the process has exited
Done == pc = "done"

\* create_serial returned the client object
Constructed == jade # Unbound

CountCalls(name) == Cardinality({ i \in 1..Len(calls) : calls[i].name = name })

HasLog(level, msg) == \E i \in 1..Len(log) : log[i] = [level |-> level, msg |-> msg]

\* the falsy values among the replies of the set-mnemonic call
FalsyValues ==
    { [type |-> "NoneType"], [type |-> "bool", b |-> FALSE], [type |-> "int", i |-> 0],
      [type |-> "str", s |-> << >>], [type |-> "dict", items |-> << >>] }

ResultFalsy == result \in FalsyValues

ResultTruthy == result # Unbound /\ result \notin FalsyValues

\* a step before the key export failed
EarlierStepFailed ==
    \/ raised \cap { "connect", "get_version_info", "debug_set_mnemonic" } # {}
    \/ ResultFalsy

XpubRaised == raised \cap { "get_xpub_root", "get_xpub_derived" } # {}

Zero == [type |-> "int", i |-> 0]

One == [type |-> "int", i |-> 1]

\* "tobacco" twelve times, joined by single spaces
TwelveTobacco ==
    << "tobacco", " ", "tobacco", " ", "tobacco", " ", "tobacco", " ",
       "tobacco", " ", "tobacco", " ", "tobacco", " ", "tobacco", " ",
       "tobacco", " ", "tobacco", " ", "tobacco", " ", "tobacco" >>

\* the derivation path the specification gives for each network
ExpectedPath(network) ==
    CASE network = "mainnet" ->
            << Dec(21474, 83732), Dec(21474, 83648), Dec(21474, 83648) >>
      [] network \in { "signet", "testnet", "localtest" } ->
            << Dec(21474, 83732), Dec(21474, 83649), Dec(21474, 83648) >>
      [] network \in { "liquid", "testnet-liquid", "localtest-liquid" } ->
            << Dec(21474, 83648) >>

XpubCalls == SelectSeq(calls, LAMBDA c : c.name = "get_xpub")

-----------------------------------------------------------------------------
\* C1: in every run in which the client object was constructed,
\* disconnect() has been invoked exactly once when main() finishes,
\* whichever step failed or succeeded; it is never invoked twice.
C1_DisconnectExactlyOnce ==
    /\ CountCalls("disconnect") <= 1
    /\ (Constructed /\ Finished) => CountCalls("disconnect") = 1

\* connect() raised, and the run still ended with one disconnect()
C1_Witness ==
    /\ Done
    /\ "connect" \in raised
    /\ CountCalls("disconnect") = 1

-----------------------------------------------------------------------------
\* C2 as stated: the exit code is 1 whenever connect(), get_version_info()
\* or the set-mnemonic call raises or set-mnemonic returns a falsy result,
\* and 0 whenever connect and the version query complete and set-mnemonic
\* returns a truthy result; every exception raised in the main sequence is
\* caught at the top level and converted to exit code 1.  The last part is
\* read in the claim's favour: of the calls whose exceptions it lists, each
\* exception reaches the top-level handler and the exit code is 1.
C2_AsStated ==
    (Done /\ Constructed) =>
        /\ EarlierStepFailed => exitCode = One
        /\ ( /\ "connect" \notin raised
             /\ "get_version_info" \notin raised
             /\ ResultTruthy ) => exitCode = Zero
        /\ (raised \cap { "connect", "get_version_info", "debug_set_mnemonic" } # {})
              => (HasLog("ERROR", "Error") /\ exitCode = One)

\* C2 amended: the exit code is 1 whenever connect(), get_version_info() or
\* the set-mnemonic call raises or set-mnemonic returns a falsy result; it
\* is 0 whenever connect and the version query complete, set-mnemonic
\* returns a truthy result and disconnect() returns without raising; an
\* exception of connect(), get_version_info() or set-mnemonic is caught by
\* the top-level handler and, when disconnect() returns, main() returns 1;
\* an exception of disconnect() is not caught: it leaves main(), and the
\* process ends with status 1.
C2_ExitCode ==
    (Done /\ Constructed) =>
        /\ EarlierStepFailed => exitCode = One
        /\ ( /\ "connect" \notin raised
             /\ "get_version_info" \notin raised
             /\ ResultTruthy
             /\ "disconnect" \notin raised )
              => (exitCode = Zero /\ outcome = "returned" /\ retval = Zero)
        /\ (raised \cap { "connect", "get_version_info", "debug_set_mnemonic" } # {})
              => /\ HasLog("ERROR", "Error")
                 /\ HasLog("STDERR", "traceback")
                 /\ "disconnect" \notin raised => (outcome = "returned" /\ retval = One)
        /\ "disconnect" \in raised => (outcome = "raised" /\ exitCode = One)

\* every call up to the key export succeeded and disconnect() raised
C2_Witness ==
    /\ Done
    /\ ResultTruthy
    /\ "disconnect" \in raised
    /\ outcome = "raised"
    /\ exitCode = One

-----------------------------------------------------------------------------
\* C3: when the set-mnemonic call returns a falsy result, no get_xpub call
\* is ever issued, the exit code is 1, and main() returns 1 (unless
\* disconnect() raises, which ends the process with status 1 as well).
C3_FalsyNoExport ==
    ResultFalsy =>
        /\ CountCalls("get_xpub") = 0
        /\ pc \notin { "get_xpub_root", "get_xpub_derived", "except_xpub" }
        /\ Done => exitCode = One
        /\ (Finished /\ "disconnect" \notin raised)
              => (outcome = "returned" /\ retval = One)

\* the call returned an empty value and the run ended
C3_Witness ==
    /\ Done
    /\ result = [type |-> "str", s |-> << >>]
    /\ exitCode = One

-----------------------------------------------------------------------------
\* C4 as stated: when set-mnemonic returns a truthy result and a get_xpub
\* call raises, the exception is caught locally, a warning is logged and
\* the exit code is 0.
C4_AsStated ==
    (Done /\ ResultTruthy /\ XpubRaised) =>
        /\ HasLog("WARNING", "Could not get xpub")
        /\ ~HasLog("ERROR", "Error")
        /\ exitCode = Zero

\* C4 amended: when set-mnemonic returns a truthy result and a get_xpub
\* call raises, the exception is caught locally and a warning is logged;
\* the exit code is 0 when disconnect() then returns and 1 when
\* disconnect() raises, exactly as in a run whose key export succeeded: a
\* key-export failure never changes the exit code.
C4_ExportFailureNonFatal ==
    /\ (Finished /\ ResultTruthy /\ XpubRaised) =>
          /\ HasLog("WARNING", "Could not get xpub")
          /\ ~HasLog("ERROR", "Error")
          /\ pending = "none"
    /\ (Done /\ ResultTruthy) =>
          exitCode = (IF "disconnect" \in raised THEN One ELSE Zero)

\* the derived export raised and the process still exited with 0
C4_Witness ==
    /\ Done
    /\ ResultTruthy
    /\ "get_xpub_derived" \in raised
    /\ HasLog("WARNING", "Could not get xpub")
    /\ exitCode = Zero

-----------------------------------------------------------------------------
\* C5: at most two get_xpub calls are made; the first passes the selected
\* network and the empty path, the second the same network and the path
\* the specification's table gives for it, for each of the 7 networks.
C5_DerivedPath ==
    /\ Len(XpubCalls) <= 2
    /\ Len(XpubCalls) >= 1 =>
          XpubCalls[1] = [name |-> "get_xpub", network |-> args.network, path |-> << >>]
    /\ Len(XpubCalls) = 2 =>
          XpubCalls[2] = [name |-> "get_xpub", network |-> args.network,
                          path |-> ExpectedPath(args.network)]

\* both exports were requested on mainnet
C5_Witness ==
    /\ Done
    /\ args.network = "mainnet"
    /\ Len(XpubCalls) = 2

-----------------------------------------------------------------------------
\* C6 as stated: whenever --mnemonic is supplied, whatever the string, the
\* 'mnemonic' parameter of the set-mnemonic call is that string; when it is
\* not supplied, the parameter is "tobacco" twelve times.
C6_AsStated ==
    \A i \in 1..Len(calls) :
        calls[i].name = "_jadeRpc" =>
            calls[i].params.mnemonic =
                (IF args.mnemonic = [type |-> "NoneType"]
                 THEN [type |-> "str", s |-> TwelveTobacco]
                 ELSE args.mnemonic)

\* C6 amended: when --mnemonic is supplied with a non-empty string, the
\* 'mnemonic' parameter of the set-mnemonic call is that string verbatim;
\* when it is not supplied, or supplied as the empty string, the parameter
\* is "tobacco" twelve times joined by single spaces.
C6_SeedResolution ==
    \A i \in 1..Len(calls) :
        calls[i].name = "_jadeRpc" =>
            calls[i].params.mnemonic =
                (IF args.mnemonic = [type |-> "NoneType"]
                    \/ args.mnemonic = [type |-> "str", s |-> << >>]
                 THEN [type |-> "str", s |-> TwelveTobacco]
                 ELSE args.mnemonic)

\* a supplied string, trailing space included, reached the call
C6_Witness ==
    /\ args.mnemonic = [type |-> "str", s |-> << "zoo", " " >>]
    /\ \E i \in 1..Len(calls) :
          /\ calls[i].name = "_jadeRpc"
          /\ calls[i].params.mnemonic.s = << "zoo", " " >>

-----------------------------------------------------------------------------
\* C7: disconnect() is attempted in every run that constructed the client,
\* also when connect() failed, and it is the last call; after it ran, a run
\* in which an earlier step failed never ends as success: main() does not
\* return 0 and the exit code is 1, also when disconnect() itself raises.
C7_ReleaseKeepsFailure ==
    /\ (Constructed /\ Finished) =>
          /\ Len(calls) >= 1
          /\ calls[Len(calls)].name = "disconnect"
    /\ (Finished /\ EarlierStepFailed) =>
          /\ ~(outcome = "returned" /\ retval = Zero)
          /\ outcome = "returned" => retval = One
          /\ outcome = "raised" => "disconnect" \in raised
    /\ (Done /\ EarlierStepFailed) => exitCode = One

\* connect() failed, disconnect() was still attempted and raised as well
C7_Witness ==
    /\ Done
    /\ "connect" \in raised
    /\ "disconnect" \in raised
    /\ calls[Len(calls)].name = "disconnect"
    /\ exitCode = One

-----------------------------------------------------------------------------
\* the calls of the fixed sequence, by position
StepAt == << "connect", "get_version_info", "debug_set_mnemonic",
             "get_xpub_root", "get_xpub_derived" >>

\* what a call is, as the fixed sequence names it
Signature(c) ==
    IF c.name # "get_xpub" THEN c.name
    ELSE IF c.network = args.network /\ c.path = << >> THEN "get_xpub(network, [])"
    ELSE IF c.network = args.network /\ c.path = ExpectedPath(args.network)
    THEN "get_xpub(network, derived_path)"
    ELSE "get_xpub(other)"

ExpectedSignatures ==
    << "connect", "get_version_info", "_jadeRpc", "get_xpub(network, [])",
       "get_xpub(network, derived_path)" >>

\* C8: the calls made on the client are a prefix of connect,
\* get_version_info, set-mnemonic, get_xpub(network, []),
\* get_xpub(network, derived_path), followed by disconnect as the last call
\* once main() has finished: each call at most once, a call only if every
\* earlier one returned without exception (and set-mnemonic returned truthy
\* for the get_xpub calls), nothing after disconnect.
C8_CallSequence ==
    LET n == Len(calls)
        closed == n > 0 /\ calls[n].name = "disconnect"
        k == IF closed THEN n - 1 ELSE n
    IN  /\ k <= 5
        /\ \A i \in 1..k : Signature(calls[i]) = ExpectedSignatures[i]
        /\ \A i \in 2..k : \A j \in 1..(i - 1) : StepAt[j] \notin raised
        /\ k >= 4 => ResultTruthy
        /\ closed => (Finished /\ k >= 1)
        /\ (Constructed /\ Finished) => closed

\* the whole sequence ran: five calls and disconnect
C8_Witness ==
    /\ Done
    /\ Len(calls) = 6
    /\ raised = {}

-----------------------------------------------------------------------------
\* C9: in every run where connect() and the version query completed without
\* exception, 'debug_set_mnemonic' is invoked exactly once, as the third
\* call, with {mnemonic, passphrase: None, temporary_wallet: False} and
\* long_timeout=True, whatever JADE_STATE the version info holds or lacks;
\* when the remote side rejects it (exception or falsy reply) the exit code
\* is 1.
C9_SetMnemonicNotGated ==
    /\ ( /\ Constructed
         /\ "connect" \notin raised
         /\ "get_version_info" \notin raised
         /\ pc \notin { "parse_args", "create_serial", "connect", "get_version_info",
                        "debug_set_mnemonic" } )
          => /\ CountCalls("_jadeRpc") = 1
             /\ calls[3] = [ name |-> "_jadeRpc", method |-> "debug_set_mnemonic",
                             params |-> [ mnemonic |-> mnemonic,
                                          passphrase |-> [type |-> "NoneType"],
                                          temporary_wallet |-> [type |-> "bool", b |-> FALSE] ],
                             long_timeout |-> TRUE ]
    /\ CountCalls("_jadeRpc") <= 1
    /\ (Done /\ ("debug_set_mnemonic" \in raised \/ ResultFalsy)) => exitCode = One

\* the version info had no JADE_STATE and the call was made all the same
C9_Witness ==
    /\ Done
    /\ version_info # Unbound
    /\ jade_state = "UNKNOWN"
    /\ CountCalls("_jadeRpc") = 1

-----------------------------------------------------------------------------
\* C10: when JadeAPI.create_serial raises, no connect, RPC or disconnect
\* call is made, the top-level handler does not run (nothing is logged as
\* an error, main() returns no value) and the exception leaves main().
C10_ConstructionUnguarded ==
    "create_serial" \in raised =>
        /\ calls = << >>
        /\ Finished
        /\ outcome = "raised"
        /\ retval = Unbound
        /\ ~HasLog("ERROR", "Error")
        /\ pending = "none"
        /\ ~Constructed

\* construction failed and the process ended on the uncaught exception
C10_Witness ==
    /\ Done
    /\ "create_serial" \in raised
    /\ exitCode = One

====
